---- MODULE Spec2Model ----
(***************************************************************************)
(* gpio_button_led: a falling edge on BUTTON_GPIO raises an interrupt,     *)
(* button_irq_handler queues the single work item button_work_struct on    *)
(* the single-threaded workqueue button_wq, and button_work_handler        *)
(* debounces on jiffies, samples the button and toggles the LED.           *)
(*                                                                         *)
(* The clock is the kernel tick counter jiffies, an unsigned long; the     *)
(* model keeps its modular arithmetic on a narrow word (ULONG_MAX) and a   *)
(* slow tick (HZ) so that the 200 ms window is a handful of ticks.         *)
(***************************************************************************)
EXTENDS Integers, Sequences, FiniteSets, TLC

\* ---- bounds of the model ------------------------------------------------
\* largest value of an unsigned long; jiffies arithmetic is modulo ULONG_MAX+1
ULONG_MAX == 7
\* ticks per second of the clock
HZ == 20
\* kernel worker contexts that could run a work item
Workers == {1, 2}

Modulus == ULONG_MAX + 1
Ticks == 0 .. ULONG_MAX

\* ---- program constants --------------------------------------------------
DebounceMs == 200
ENODEV == 19
ENOMEM == 12
\* the negative results a kernel call may fail with
Errors == {-ENODEV, -ENOMEM}

\* msecs_to_jiffies rounds up to whole ticks
msecs_to_jiffies(m) == (m * HZ + 999) \div 1000
DebounceWindow == msecs_to_jiffies(DebounceMs)

\* a subtraction that does not wrap around
usub_signed(a, b) == a - b

\* unsigned long subtraction
usub(a, b) == (a - b + Modulus) % Modulus

\* the conversion of an int to the unsigned irq_number: a negative errno
\* becomes a large positive number, a valid number is kept
IRQ_VALID == 1
\* irqreturn_t: the interrupt was handled
IRQ_HANDLED == 1
UIntModulus == Modulus * Modulus
to_unsigned(v) == IF v < 0 THEN v + UIntModulus ELSE v

VARIABLES
    mpc,                 \* position of the module's init / exit thread
    result,              \* gpio_button_led_init's result
    button_requested,    \* BUTTON_GPIO is held (gpio_request .. gpio_free)
    led_requested,       \* LED_GPIO is held
    wq_alive,            \* button_wq exists
    irq_number,          \* static unsigned int irq_number
    irq_armed,           \* button_irq_handler is registered on the irq
    jiffies,             \* the tick counter
    button,              \* level of the input line (0 = pressed)
    led_out,             \* level driven on the output line
    led_state,           \* static bool led_state
    last_interrupt_time, \* static local of button_work_handler
    work_pending,        \* WORK_STRUCT_PENDING bit of button_work_struct.work
    worklist,            \* entries of the work item queued on button_wq
    pc,                  \* per worker: position inside button_work_handler
    interrupt_time,      \* per worker: local interrupt_time
    elapsed,             \* per worker: interrupt_time - last_interrupt_time
    flips,               \* per worker: times this evaluation flipped led_state
    wrote,               \* per worker: this evaluation wrote the output line
    \* history, read by no action of the driver
    mon,                 \* spacing of the edges delivered to the interrupt
    evaluations,         \* debounce tests made so far, counted up to 2
    scenario1,           \* progress of the run "edges at 0, 50 and 250 ms"
    irq_ret,             \* what button_irq_handler returned last (-1: never ran)
    life,                \* where init failed, and what free_irq met
    since_toggle,        \* ticks since the clock read of the evaluation that
                         \* toggled last, counted up to the window
    age,                 \* per worker: ticks since its clock read, counted
                         \* up to the window, until the evaluation decides
    fresh                \* per worker: at its clock read the last toggling
                         \* evaluation lay at least a window back

progvars == <<mpc, result, button_requested, led_requested, wq_alive,
              irq_number, irq_armed, jiffies, button, led_out, led_state,
              last_interrupt_time, work_pending, worklist, pc,
              interrupt_time, elapsed, flips, wrote>>

hist == <<mon, evaluations, scenario1>>
toggle_hist == <<since_toggle, age, fresh>>

vars == <<progvars, hist, irq_ret, life, toggle_hist>>

lifecycle == <<mpc, result, button_requested, led_requested, wq_alive,
               irq_number, irq_armed>>
locals == <<interrupt_time, elapsed, flips, wrote>>

BoolToLevel(b) == IF b THEN 1 ELSE 0

Running == {w \in Workers : pc[w] # "idle"}

\* ---- history of the edges ------------------------------------------------
Min(a, b) == IF a < b THEN a ELSE b

\* mon.first: ticks since the first edge (-1: no edge yet), mon.gap: ticks
\* since the latest edge, both counted up to the window;
\* mon.spaced: every edge came at least a window after the one before it;
\* mon.burst: every edge came less than a window after the first one.
\* A count whose flag is already FALSE is no longer kept.
MonEdge(m) ==
    IF m.first = -1
      THEN [first |-> 0, gap |-> 0, spaced |-> TRUE, burst |-> TRUE]
      ELSE LET sp == m.spaced /\ m.gap >= DebounceWindow
               bu == m.burst /\ m.first < DebounceWindow
           IN  [first |-> IF bu THEN m.first ELSE DebounceWindow,
                gap |-> 0, spaced |-> sp, burst |-> bu]

MonTick(m) ==
    [m EXCEPT !.first = IF m.first = -1 \/ ~m.burst
                          THEN m.first
                          ELSE Min(m.first + 1, DebounceWindow),
              !.gap = IF m.first = -1 \/ ~m.spaced
                        THEN m.gap
                        ELSE Min(m.gap + 1, DebounceWindow)]

\* Scenario 1: pressed-level edges evaluated 0, 50 and 250 ms on the clock,
\* and nothing else.  scenario1.toggles lists, for the evaluations made so
\* far, whether each toggled; scenario1.off: the run is not this scenario.
ScenarioMs == <<0, 50, 250>>
ScenarioTick(i) == (ScenarioMs[i] * HZ) \div 1000
ScenarioOff == [off |-> TRUE, toggles |-> <<>>]
ScenarioOver(sc) == sc.off \/ Len(sc.toggles) = Len(ScenarioMs)

\* the clock wrapped around before the scenario was over
ScenarioWrap(sc) == IF ScenarioOver(sc) THEN sc ELSE ScenarioOff

\* an evaluation reads the clock
ScenarioStart(sc, now) ==
    IF ScenarioOver(sc) THEN sc
    ELSE IF now = ScenarioTick(Len(sc.toggles) + 1) THEN sc ELSE ScenarioOff

\* an evaluation ends with the input at level, having toggled or not
ScenarioEnd(sc, level, toggled) ==
    IF ScenarioOver(sc) THEN sc
    ELSE IF level = 0 THEN [sc EXCEPT !.toggles = Append(@, toggled)]
    ELSE ScenarioOff

\* ---- the clock ----------------------------------------------------------
Tick ==
    /\ jiffies' = (jiffies + 1) % Modulus
    /\ mon' = MonTick(mon)
    /\ scenario1' = IF jiffies = ULONG_MAX THEN ScenarioWrap(scenario1)
                                           ELSE scenario1
    /\ UNCHANGED evaluations
    /\ since_toggle' = Min(since_toggle + 1, DebounceWindow)
    /\ age' = [w \in Workers |->
                 IF pc[w] \in {"L31", "L37", "L39"}
                   THEN Min(age[w] + 1, DebounceWindow) ELSE age[w]]
    /\ UNCHANGED <<irq_ret, life, fresh>>
    /\ UNCHANGED <<lifecycle, button, led_out, led_state, last_interrupt_time,
                   work_pending, worklist, pc, locals>>

\* ---- the workqueue ------------------------------------------------------
\* a queue_work that queues the item without looking at the pending bit
queue_work_always(p, n) == n + 1

\* a queue_work that drops the item while the work function is running
queue_work_skip_running(p, n) == IF p \/ Running # {} THEN n ELSE n + 1

\* queue_work: test-and-set of the pending bit; only the caller that sets it
\* puts the item on the queue
queue_work_pending(p) == TRUE
queue_work_worklist(p, n) == IF p THEN n ELSE n + 1

\* an interrupt handler that stamps the debounce time itself
button_irq_handler_stamps ==
    /\ work_pending' = queue_work_pending(work_pending)
    /\ worklist' = queue_work_worklist(work_pending, worklist)
    /\ last_interrupt_time' = jiffies
    /\ irq_ret' = IRQ_HANDLED
    /\ UNCHANGED <<lifecycle, jiffies, led_out, led_state, pc, locals>>

\* the interrupt handler: queue_work(button_wq, &button_work_struct.work);
\* return IRQ_HANDLED;
button_irq_handler ==
    /\ work_pending' = queue_work_pending(work_pending)
    /\ worklist' = queue_work_worklist(work_pending, worklist)
    /\ irq_ret' = IRQ_HANDLED
    /\ UNCHANGED <<lifecycle, jiffies, led_out, led_state,
                   last_interrupt_time, pc, locals>>

\* a falling edge on the input line; the interrupt fires when it is armed
FallingEdge ==
    /\ button = 1
    /\ button' = 0
    /\ IF irq_armed
         THEN button_irq_handler /\ mon' = MonEdge(mon)
         ELSE UNCHANGED <<work_pending, worklist, mon, irq_ret, lifecycle,
                          jiffies, led_out, led_state, last_interrupt_time,
                          pc, locals>>
    /\ UNCHANGED <<evaluations, scenario1, life, toggle_hist>>

\* the button is released (a rising edge raises no interrupt)
RisingEdge ==
    /\ button = 0
    /\ button' = 1
    /\ UNCHANGED hist
    /\ UNCHANGED <<lifecycle, jiffies, led_out, led_state,
                   last_interrupt_time, work_pending, worklist, pc, locals>>
    /\ UNCHANGED <<irq_ret, life, toggle_hist>>

\* a workqueue that starts an item while another one is running
max_active_unlimited == TRUE

\* the single-threaded workqueue runs one work item at a time
max_active_ok == Running = {}

\* the idle worker that takes the next item
FirstIdle == CHOOSE w \in Workers :
                /\ pc[w] = "idle"
                /\ \A v \in Workers : pc[v] = "idle" => w <= v

\* a worker takes the item off the queue, clears the pending bit and calls
\* the work function
process_one_work(w) ==
    /\ wq_alive
    /\ worklist > 0
    /\ \E v \in Workers : pc[v] = "idle"
    /\ w = FirstIdle
    /\ max_active_ok
    /\ worklist' = worklist - 1
    /\ work_pending' = FALSE
    /\ pc' = [pc EXCEPT ![w] = "L28"]
    /\ UNCHANGED hist
    /\ UNCHANGED <<lifecycle, jiffies, button, led_out, led_state,
                   last_interrupt_time, locals>>
    /\ UNCHANGED <<irq_ret, life, toggle_hist>>

\* ---- button_work_handler ------------------------------------------------
\* unsigned long interrupt_time = jiffies;
L28(w) ==
    /\ pc[w] = "L28"
    /\ interrupt_time' = [interrupt_time EXCEPT ![w] = jiffies]
    /\ pc' = [pc EXCEPT ![w] = "L31"]
    /\ scenario1' = ScenarioStart(scenario1, jiffies)
    /\ UNCHANGED <<mon, evaluations>>
    /\ UNCHANGED <<lifecycle, jiffies, button, led_out, led_state,
                   last_interrupt_time, work_pending, worklist, elapsed, flips,
                   wrote>>
    /\ age' = [age EXCEPT ![w] = 0]
    /\ fresh' = [fresh EXCEPT ![w] = since_toggle >= DebounceWindow]
    /\ UNCHANGED <<irq_ret, life, since_toggle>>

\* a debounce test that also rejects at exactly the window
Debounced_inclusive(e) == e <= msecs_to_jiffies(DebounceMs)

\* a debounce test whose window is one tick short
Debounced_short(e) == e < msecs_to_jiffies(DebounceMs) - 1

\* the debounce test on the unsigned difference
Debounced(e) == e < msecs_to_jiffies(DebounceMs)

\* a handler that stamps last_interrupt_time before the debounce test
L31_stamp_first(w) ==
    /\ pc[w] = "L31"
    /\ LET e == usub(interrupt_time[w], last_interrupt_time) IN
       /\ elapsed' = [elapsed EXCEPT ![w] = e]
       /\ last_interrupt_time' = interrupt_time[w]
       /\ IF Debounced(e)
            THEN /\ pc' = [pc EXCEPT ![w] = "ret_debounced"]
                 /\ scenario1' = ScenarioEnd(scenario1, button, FALSE)
            ELSE /\ pc' = [pc EXCEPT ![w] = "L37"]
                 /\ UNCHANGED scenario1
    /\ evaluations' = IF evaluations < 2 THEN evaluations + 1 ELSE 2
    /\ UNCHANGED mon
    /\ UNCHANGED <<lifecycle, jiffies, button, led_out, led_state,
                   work_pending, worklist, interrupt_time, flips, wrote>>
    /\ age' = [age EXCEPT ![w] = IF pc'[w] = "ret_debounced" THEN 0 ELSE @]
    /\ UNCHANGED <<irq_ret, life, since_toggle, fresh>>

\* if (interrupt_time - last_interrupt_time < msecs_to_jiffies(200)) return;
\* last_interrupt_time = interrupt_time;
L31(w) ==
    /\ pc[w] = "L31"
    /\ LET e == usub(interrupt_time[w], last_interrupt_time) IN
       /\ elapsed' = [elapsed EXCEPT ![w] = e]
       /\ IF Debounced(e)
            THEN /\ pc' = [pc EXCEPT ![w] = "ret_debounced"]
                 /\ UNCHANGED last_interrupt_time
                 /\ scenario1' = ScenarioEnd(scenario1, button, FALSE)
            ELSE /\ last_interrupt_time' = interrupt_time[w]
                 /\ pc' = [pc EXCEPT ![w] = "L37"]
                 /\ UNCHANGED scenario1
    /\ evaluations' = IF evaluations < 2 THEN evaluations + 1 ELSE 2
    /\ UNCHANGED mon
    /\ UNCHANGED <<lifecycle, jiffies, button, led_out, led_state,
                   work_pending, worklist, interrupt_time, flips, wrote>>
    /\ age' = [age EXCEPT ![w] = IF pc'[w] = "ret_debounced" THEN 0 ELSE @]
    /\ UNCHANGED <<irq_ret, life, since_toggle, fresh>>

\* a handler that takes the high level for the pressed one
L37_active_high(w) ==
    /\ pc[w] = "L37"
    /\ pc' = [pc EXCEPT ![w] = IF button = 1 THEN "L39" ELSE "ret_released"]
    /\ scenario1' = IF button = 1 THEN scenario1
                                  ELSE ScenarioEnd(scenario1, 1, FALSE)
    /\ UNCHANGED <<mon, evaluations>>
    /\ UNCHANGED <<lifecycle, jiffies, button, led_out, led_state,
                   last_interrupt_time, work_pending, worklist, locals>>
    /\ age' = [age EXCEPT ![w] = IF pc'[w] = "ret_released" THEN 0 ELSE @]
    /\ UNCHANGED <<irq_ret, life, since_toggle, fresh>>

\* if (gpio_get_value(BUTTON_GPIO) == 0)
L37(w) ==
    /\ pc[w] = "L37"
    /\ pc' = [pc EXCEPT ![w] = IF button = 0 THEN "L39" ELSE "ret_released"]
    /\ scenario1' = IF button = 0 THEN scenario1
                                  ELSE ScenarioEnd(scenario1, button, FALSE)
    /\ UNCHANGED <<mon, evaluations>>
    /\ UNCHANGED <<lifecycle, jiffies, button, led_out, led_state,
                   last_interrupt_time, work_pending, worklist, locals>>
    /\ age' = [age EXCEPT ![w] = IF pc'[w] = "ret_released" THEN 0 ELSE @]
    /\ UNCHANGED <<irq_ret, life, since_toggle, fresh>>

\* led_state = !led_state;
L39(w) ==
    /\ pc[w] = "L39"
    /\ led_state' = ~led_state
    /\ flips' = [flips EXCEPT ![w] = @ + 1]
    /\ pc' = [pc EXCEPT ![w] = "L40"]
    /\ UNCHANGED hist
    /\ UNCHANGED <<lifecycle, jiffies, button, led_out,
                   last_interrupt_time, work_pending, worklist,
                   interrupt_time, elapsed, wrote>>
    /\ since_toggle' = age[w]
    /\ age' = [age EXCEPT ![w] = 0]
    /\ UNCHANGED <<irq_ret, life, fresh>>

\* a handler that writes the level led_state had before the flip
L40_stale(w) ==
    /\ pc[w] = "L40"
    /\ led_out' = BoolToLevel(~led_state)
    /\ wrote' = [wrote EXCEPT ![w] = TRUE]
    /\ pc' = [pc EXCEPT ![w] = "ret_toggled"]
    /\ scenario1' = ScenarioEnd(scenario1, 0, TRUE)
    /\ UNCHANGED <<mon, evaluations>>
    /\ UNCHANGED <<lifecycle, jiffies, button, led_state,
                   last_interrupt_time, work_pending, worklist,
                   interrupt_time, elapsed, flips>>
    /\ UNCHANGED <<irq_ret, life, toggle_hist>>

\* gpio_set_value(LED_GPIO, led_state);
L40(w) ==
    /\ pc[w] = "L40"
    /\ led_out' = BoolToLevel(led_state)
    /\ wrote' = [wrote EXCEPT ![w] = TRUE]
    /\ pc' = [pc EXCEPT ![w] = "ret_toggled"]
    /\ scenario1' = ScenarioEnd(scenario1, 0, TRUE)
    /\ UNCHANGED <<mon, evaluations>>
    /\ UNCHANGED <<lifecycle, jiffies, button, led_state,
                   last_interrupt_time, work_pending, worklist,
                   interrupt_time, elapsed, flips>>
    /\ UNCHANGED <<irq_ret, life, toggle_hist>>

Returned == {"ret_debounced", "ret_released", "ret_toggled"}

\* the work function has returned; the worker becomes idle
worker_done(w) ==
    /\ pc[w] \in Returned
    /\ pc' = [pc EXCEPT ![w] = "idle"]
    /\ interrupt_time' = [interrupt_time EXCEPT ![w] = 0]
    /\ elapsed' = [elapsed EXCEPT ![w] = 0]
    /\ flips' = [flips EXCEPT ![w] = 0]
    /\ wrote' = [wrote EXCEPT ![w] = FALSE]
    /\ UNCHANGED hist
    /\ UNCHANGED <<lifecycle, jiffies, button, led_out, led_state,
                   last_interrupt_time, work_pending, worklist>>
    /\ fresh' = [fresh EXCEPT ![w] = FALSE]
    /\ UNCHANGED <<irq_ret, life, since_toggle, age>>

button_work_handler(w) == L28(w) \/ L31(w) \/ L37(w) \/ L39(w) \/ L40(w)

\* ---- gpio_button_led_init -----------------------------------------------
runtime == <<jiffies, button, led_state, last_interrupt_time, work_pending,
             worklist, pc, locals, hist, irq_ret, toggle_hist>>

\* gpio_is_valid(BUTTON_GPIO), gpio_request(BUTTON_GPIO, ..)
init_request_button ==
    /\ mpc = "L63"
    /\ \E r \in {"ok", "invalid", "busy"} :
         CASE r = "ok" -> /\ button_requested' = TRUE
                          /\ mpc' = "L75"
                          /\ UNCHANGED <<result, life>>
           [] r = "invalid" -> /\ result' = -ENODEV
                               /\ mpc' = "init_failed"
                               /\ life' = [life EXCEPT !.failed_at = "L63"]
                               /\ UNCHANGED button_requested
           [] r = "busy" -> /\ result' \in Errors
                            /\ mpc' = "init_failed"
                            /\ life' = [life EXCEPT !.failed_at = "L68"]
                            /\ UNCHANGED button_requested
    /\ UNCHANGED <<led_requested, wq_alive, irq_number, irq_armed, led_out,
                   runtime>>

\* gpio_direction_input(BUTTON_GPIO)
init_direction_input ==
    /\ mpc = "L75"
    /\ \E ok \in BOOLEAN :
         IF ok THEN /\ mpc' = "L82"
                    /\ UNCHANGED <<result, life>>
               ELSE /\ result' \in Errors
                    /\ life' = [life EXCEPT !.failed_at = "L75"]
                    /\ mpc' = "fail_button_direction"
    /\ UNCHANGED <<button_requested, led_requested, wq_alive, irq_number,
                   irq_armed, led_out, runtime>>

\* gpio_is_valid(LED_GPIO), gpio_request(LED_GPIO, ..)
init_request_led ==
    /\ mpc = "L82"
    /\ \E r \in {"ok", "invalid", "busy"} :
         CASE r = "ok" -> /\ led_requested' = TRUE
                          /\ mpc' = "L95"
                          /\ UNCHANGED <<result, life>>
           [] r = "invalid" -> /\ result' = -ENODEV
                               /\ mpc' = "fail_button_direction"
                               /\ life' = [life EXCEPT !.failed_at = "L82"]
                               /\ UNCHANGED led_requested
           [] r = "busy" -> /\ result' \in Errors
                            /\ mpc' = "fail_button_direction"
                            /\ life' = [life EXCEPT !.failed_at = "L88"]
                            /\ UNCHANGED led_requested
    /\ UNCHANGED <<button_requested, wq_alive, irq_number, irq_armed,
                   led_out, runtime>>

\* an init that leaves by the wrong label when the LED direction fails
init_direction_output_wrong_label ==
    /\ mpc = "L95"
    /\ \E ok \in BOOLEAN :
         IF ok THEN /\ led_out' = 0
                    /\ mpc' = "L102"
                    /\ UNCHANGED <<result, life>>
               ELSE /\ result' \in Errors
                    /\ life' = [life EXCEPT !.failed_at = "L95"]
                    /\ mpc' = "fail_button_direction"
                    /\ UNCHANGED led_out
    /\ UNCHANGED <<button_requested, led_requested, wq_alive, irq_number,
                   irq_armed, runtime>>

\* gpio_direction_output(LED_GPIO, 0)
init_direction_output ==
    /\ mpc = "L95"
    /\ \E ok \in BOOLEAN :
         IF ok THEN /\ led_out' = 0
                    /\ mpc' = "L102"
                    /\ UNCHANGED <<result, life>>
               ELSE /\ result' \in Errors
                    /\ life' = [life EXCEPT !.failed_at = "L95"]
                    /\ mpc' = "fail_led_direction"
                    /\ UNCHANGED led_out
    /\ UNCHANGED <<button_requested, led_requested, wq_alive, irq_number,
                   irq_armed, runtime>>

\* create_singlethread_workqueue, INIT_WORK
init_create_workqueue ==
    /\ mpc = "L102"
    /\ \E ok \in BOOLEAN :
         IF ok THEN /\ wq_alive' = TRUE
                    /\ mpc' = "L113"
                    /\ UNCHANGED <<result, life>>
               ELSE /\ result' = -ENOMEM
                    /\ life' = [life EXCEPT !.failed_at = "L102"]
                    /\ mpc' = "fail_led_direction"
                    /\ UNCHANGED wq_alive
    /\ UNCHANGED <<button_requested, led_requested, irq_number, irq_armed,
                   led_out, runtime>>

\* irq_number = gpio_to_irq(BUTTON_GPIO); if (irq_number < 0) ...
init_gpio_to_irq ==
    /\ mpc = "L113"
    /\ \E r \in {IRQ_VALID} \cup Errors :
         /\ irq_number' = to_unsigned(r)
         /\ IF to_unsigned(r) < 0
              THEN /\ result' = to_unsigned(r)
                   /\ life' = [life EXCEPT !.failed_at = "L113"]
                   /\ mpc' = "fail_workqueue"
              ELSE /\ mpc' = "L121"
                   /\ UNCHANGED <<result, life>>
    /\ UNCHANGED <<button_requested, led_requested, wq_alive, irq_armed,
                   led_out, runtime>>

\* request_irq(irq_number, button_irq_handler, IRQF_TRIGGER_FALLING, ..)
init_request_irq ==
    /\ mpc = "L121"
    /\ \E ok \in BOOLEAN :
         IF ok /\ irq_number = IRQ_VALID
           THEN /\ irq_armed' = TRUE
                /\ result' = 0
                /\ mpc' = "loaded"
                /\ UNCHANGED life
           ELSE /\ result' \in Errors
                /\ life' = [life EXCEPT !.failed_at = "L121"]
                /\ mpc' = "fail_workqueue"
                /\ UNCHANGED irq_armed
    /\ UNCHANGED <<button_requested, led_requested, wq_alive, irq_number,
                   led_out, runtime>>

\* fail_workqueue: destroy_workqueue(button_wq);
fail_workqueue ==
    /\ mpc = "fail_workqueue"
    /\ wq_alive' = FALSE
    /\ mpc' = "fail_led_direction"
    /\ UNCHANGED <<result, button_requested, led_requested, irq_number,
                   irq_armed, led_out, runtime>>
    /\ UNCHANGED life

\* fail_led_direction: gpio_free(LED_GPIO);
fail_led_direction ==
    /\ mpc = "fail_led_direction"
    /\ led_requested' = FALSE
    /\ mpc' = "fail_button_direction"
    /\ UNCHANGED <<result, button_requested, wq_alive, irq_number,
                   irq_armed, led_out, runtime>>
    /\ UNCHANGED life

\* fail_button_direction: gpio_free(BUTTON_GPIO); return result;
fail_button_direction ==
    /\ mpc = "fail_button_direction"
    /\ button_requested' = FALSE
    /\ mpc' = "init_failed"
    /\ UNCHANGED <<result, led_requested, wq_alive, irq_number,
                   irq_armed, led_out, runtime>>
    /\ UNCHANGED life

gpio_button_led_init ==
    \/ init_request_button \/ init_direction_input \/ init_request_led
    \/ init_direction_output \/ init_create_workqueue \/ init_gpio_to_irq
    \/ init_request_irq
    \/ fail_workqueue \/ fail_led_direction \/ fail_button_direction

\* ---- gpio_button_led_exit -----------------------------------------------
\* an exit that leaves the interrupt armed
exit_free_irq_keeps_armed ==
    /\ mpc = "loaded"
    /\ mpc' = "L155"
    /\ UNCHANGED <<result, button_requested, led_requested, wq_alive,
                   irq_number, irq_armed, led_out, runtime>>
    /\ life' = [life EXCEPT !.met_running = Running # {},
                             !.met_pending = worklist > 0]

\* free_irq(irq_number, NULL);
exit_free_irq ==
    /\ mpc = "loaded"
    /\ irq_armed' = FALSE
    /\ mpc' = "L155"
    /\ UNCHANGED <<result, button_requested, led_requested, wq_alive,
                   irq_number, led_out, runtime>>
    /\ life' = [life EXCEPT !.met_running = Running # {},
                             !.met_pending = worklist > 0]

\* a destroy_workqueue that throws away the queued work, as a cancel would
exit_destroy_workqueue_cancel ==
    /\ mpc = "L155"
    /\ Running = {}
    /\ wq_alive' = FALSE
    /\ mpc' = "L158"
    /\ worklist' = 0
    /\ work_pending' = FALSE
    /\ UNCHANGED <<result, button_requested, led_requested, irq_number,
                   irq_armed, led_out, jiffies, button, led_state,
                   last_interrupt_time, pc, locals, hist, irq_ret,
                   toggle_hist>>
    /\ UNCHANGED life

\* a destroy_workqueue that does not wait for the queue to drain
exit_destroy_workqueue_nowait ==
    /\ mpc = "L155"
    /\ wq_alive' = FALSE
    /\ mpc' = "L158"
    /\ UNCHANGED <<result, button_requested, led_requested, irq_number,
                   irq_armed, led_out, runtime>>
    /\ UNCHANGED life

\* destroy_workqueue(button_wq): returns once the queue is drained, that is
\* nothing is queued and no work function is running
exit_destroy_workqueue ==
    /\ mpc = "L155"
    /\ worklist = 0
    /\ Running = {}
    /\ wq_alive' = FALSE
    /\ mpc' = "L158"
    /\ UNCHANGED <<result, button_requested, led_requested, irq_number,
                   irq_armed, led_out, runtime>>
    /\ UNCHANGED life

\* an exit that writes led_state to the line instead of 0
exit_led_off_keep ==
    /\ mpc = "L158"
    /\ led_out' = BoolToLevel(led_state)
    /\ mpc' = "L159"
    /\ UNCHANGED <<result, button_requested, led_requested, wq_alive,
                   irq_number, irq_armed, runtime>>
    /\ UNCHANGED life

\* gpio_set_value(LED_GPIO, 0);
exit_led_off ==
    /\ mpc = "L158"
    /\ led_out' = 0
    /\ mpc' = "L159"
    /\ UNCHANGED <<result, button_requested, led_requested, wq_alive,
                   irq_number, irq_armed, runtime>>
    /\ UNCHANGED life

\* gpio_free(LED_GPIO);
exit_free_led ==
    /\ mpc = "L159"
    /\ led_requested' = FALSE
    /\ mpc' = "L160"
    /\ UNCHANGED <<result, button_requested, wq_alive, irq_number,
                   irq_armed, led_out, runtime>>
    /\ UNCHANGED life

\* gpio_free(BUTTON_GPIO);
exit_free_button ==
    /\ mpc = "L160"
    /\ button_requested' = FALSE
    /\ mpc' = "unloaded"
    /\ UNCHANGED <<result, led_requested, wq_alive, irq_number,
                   irq_armed, led_out, runtime>>
    /\ UNCHANGED life

gpio_button_led_exit ==
    \/ exit_free_irq \/ exit_destroy_workqueue \/ exit_led_off
    \/ exit_free_led \/ exit_free_button

\* ---- the system ---------------------------------------------------------
Init ==
    /\ mpc = "L63"
    /\ result = 0
    /\ button_requested = FALSE
    /\ led_requested = FALSE
    /\ wq_alive = FALSE
    /\ irq_number = 0
    /\ irq_armed = FALSE
    /\ jiffies \in Ticks
    /\ button \in {0, 1}
    /\ led_out \in {0, 1}
    /\ led_state = FALSE
    /\ last_interrupt_time = 0
    /\ work_pending = FALSE
    /\ worklist = 0
    /\ pc = [w \in Workers |-> "idle"]
    /\ interrupt_time = [w \in Workers |-> 0]
    /\ elapsed = [w \in Workers |-> 0]
    /\ flips = [w \in Workers |-> 0]
    /\ wrote = [w \in Workers |-> FALSE]
    /\ mon = [first |-> -1, gap |-> 0, spaced |-> TRUE, burst |-> TRUE]
    /\ evaluations = 0
    /\ scenario1 = [off |-> FALSE, toggles |-> <<>>]
    /\ irq_ret = -1
    /\ life = [failed_at |-> "", met_running |-> FALSE, met_pending |-> FALSE]
    /\ since_toggle = DebounceWindow
    /\ age = [w \in Workers |-> 0]
    /\ fresh = [w \in Workers |-> FALSE]

Next ==
    \/ Tick
    \/ FallingEdge
    \/ RisingEdge
    \/ gpio_button_led_init
    \/ gpio_button_led_exit
    \/ \E w \in Workers : process_one_work(w)
    \/ \E w \in Workers : button_work_handler(w)
    \/ \E w \in Workers : worker_done(w)

Spec == Init /\ [][Next]_vars

\* the worker thread of button_wq is scheduled: a queued item is started
\* and a started work function runs to its end
Fairness ==
    /\ WF_vars(\E w \in Workers : process_one_work(w))
    /\ WF_vars(\E w \in Workers : button_work_handler(w))
    /\ WF_vars(\E w \in Workers : worker_done(w))

LiveSpec == Init /\ [][Next]_vars /\ Fairness

TypeOK ==
    /\ jiffies \in Ticks
    /\ last_interrupt_time \in Ticks
    /\ button \in {0, 1}
    /\ led_out \in {0, 1}
    /\ led_state \in BOOLEAN
    /\ worklist \in 0 .. 1

\* ---- steps of an evaluation, as seen from outside -------------------------
\* the interrupt handler runs for a falling edge
EdgeDelivered == button = 1 /\ button' = 0 /\ irq_armed

\* worker w makes the debounce test
Tests(w) == pc[w] = "L31" /\ pc'[w] # "L31"
Rejects(w) == pc[w] = "L31" /\ pc'[w] = "ret_debounced"
Accepts(w) == pc[w] = "L31" /\ pc'[w] = "L37"

\* the work function returns
Returns(w) == pc[w] \notin Returned /\ pc'[w] \in Returned

\* the level of the input line that the returning evaluation met: the level
\* at the debounce test when it is rejected there, the sampled level otherwise
MetPressed(w) ==
    \/ pc[w] = "L31" /\ button = 0
    \/ pc[w] = "L40"

\* the shared state the handler may write
Untouched ==
    /\ led_state' = led_state
    /\ led_out' = led_out
    /\ last_interrupt_time' = last_interrupt_time

\* ---- C1 -------------------------------------------------------------------
\* C1: as long as the edges delivered so far came pairwise at least
\* DebounceWindow apart, every evaluation that meets the pressed level ends
\* with led_state flipped exactly once and the output line equal to led_state.
C1_Orig ==
    [][\A w \in Workers :
         (mon.spaced /\ Returns(w) /\ MetPressed(w))
            => /\ pc'[w] = "ret_toggled"
               /\ flips'[w] = 1
               /\ led_out' = BoolToLevel(led_state')]_vars

\* ---- C2 -------------------------------------------------------------------
\* C2: as long as the edges delivered so far all came less than
\* DebounceWindow after the first one, the first evaluation passes the
\* debounce test and every later one is rejected with led_state and the
\* output line unchanged and no write to the line.
C2_Orig ==
    [][\A w \in Workers :
         (mon.burst /\ Tests(w))
            => IF evaluations = 0
                 THEN Accepts(w)
                 ELSE /\ Rejects(w)
                      /\ led_state' = led_state
                      /\ led_out' = led_out
                      /\ wrote'[w] = FALSE]_vars

\* ---- C3 -------------------------------------------------------------------
\* C3: an evaluation whose time is less than DebounceWindow after
\* last_interrupt_time returns with led_state, last_interrupt_time and the
\* output line unchanged and without a write; last_interrupt_time changes
\* only in a step that passes the debounce test.
Thm_C3 ==
    [][/\ \A w \in Workers :
            (pc[w] = "L31" /\ pc'[w] # "L31"
               /\ usub(interrupt_time[w], last_interrupt_time) < DebounceWindow)
              => /\ pc'[w] = "ret_debounced"
                 /\ Untouched
                 /\ flips'[w] = 0
                 /\ wrote'[w] = FALSE
       /\ last_interrupt_time' # last_interrupt_time
            => \E w \in Workers :
                 /\ Accepts(w)
                 /\ usub(interrupt_time[w], last_interrupt_time)
                        >= DebounceWindow
                 /\ last_interrupt_time' = interrupt_time[w]]_vars

\* a pressed-level evaluation was rejected inside the window of an earlier
\* accepted one
W_C3 ==
    \E w \in Workers :
       /\ pc[w] = "ret_debounced"
       /\ elapsed[w] < DebounceWindow
       /\ elapsed[w] > 0
       /\ last_interrupt_time # 0
       /\ button = 0
       /\ led_state

\* ---- C4 -------------------------------------------------------------------
\* C4: the debounce test at exactly last_interrupt_time + DebounceWindow
\* accepts, and one tick earlier it rejects.
Thm_C4 ==
    [][\A w \in Workers :
         Tests(w)
           => LET e == usub(interrupt_time[w], last_interrupt_time) IN
              /\ e = DebounceWindow
                   => Accepts(w) /\ last_interrupt_time' = interrupt_time[w]
              /\ e = DebounceWindow - 1
                   => Rejects(w) /\ Untouched]_vars

\* an evaluation exactly one window after the last accepted one has passed
\* the test
W_C4 ==
    \E w \in Workers :
       /\ pc[w] = "L37"
       /\ elapsed[w] = DebounceWindow
       /\ last_interrupt_time = interrupt_time[w]
       /\ evaluations = 2

\* ---- C5 -------------------------------------------------------------------
\* C5: in the run of Scenario 1 (pressed-level evaluations at 0, 50 and
\* 250 ms from the freshly initialised driver) the evaluations toggle, do
\* not toggle, toggle.
ScenarioToggles == <<TRUE, FALSE, TRUE>>
C5_Orig ==
    \A i \in 1 .. Len(scenario1.toggles) :
       scenario1.toggles[i] = ScenarioToggles[i]

\* ---- C6 -------------------------------------------------------------------
\* C6: an evaluation that passed the debounce test and samples the released
\* level returns with led_state and the output line unchanged and no write
\* to the line, while last_interrupt_time is the time of that evaluation.
Thm_C6 ==
    [][\A w \in Workers :
         (pc[w] = "L37" /\ pc'[w] # "L37" /\ button = 1)
            => /\ pc'[w] = "ret_released"
               /\ led_state' = led_state
               /\ led_out' = led_out
               /\ flips'[w] = 0
               /\ wrote'[w] = FALSE
               /\ last_interrupt_time' = interrupt_time[w]]_vars

\* an accepted evaluation returned without a toggle and moved
\* last_interrupt_time to its own time
W_C6 ==
    \E w \in Workers :
       /\ pc[w] = "ret_released"
       /\ elapsed[w] >= DebounceWindow
       /\ last_interrupt_time = interrupt_time[w]
       /\ interrupt_time[w] # 0
       /\ ~wrote[w]

\* ---- C7 -------------------------------------------------------------------
Initialised == {"loaded", "L155", "L158", "L159", "L160", "unloaded"}
BeforeLedOff == {"loaded", "L155", "L158"}

\* C7 as stated: in every state from successful initialisation through
\* shutdown, led_state equals the level last written to the output line.
C7_Orig == mpc \in Initialised => led_out = BoolToLevel(led_state)

\* C7 as amended: from successful initialisation until exit's gpio_set_value,
\* led_state equals the level of the output line whenever no evaluation is
\* between flipping led_state and writing it; after exit's gpio_set_value the
\* line is 0 whatever led_state is.
Thm_C7 ==
    /\ (mpc \in BeforeLedOff /\ \A w \in Workers : pc[w] # "L40")
          => led_out = BoolToLevel(led_state)
    /\ mpc \in Initialised \ BeforeLedOff => led_out = 0

\* exit has forced the line to 0 while led_state is still true
W_C7 == mpc = "L159" /\ led_state /\ led_out = 0

\* ---- C8 -------------------------------------------------------------------
\* C8: at most one entry of the work item is queued, it is queued exactly
\* when the pending bit is set, and an edge delivered while the item is
\* pending leaves the queue as it is.
Thm_C8 ==
    [][/\ worklist' <= 1
       /\ work_pending' <=> worklist' = 1
       /\ (EdgeDelivered /\ work_pending)
            => worklist' = worklist /\ work_pending']_vars

\* two or more edges were delivered before the first evaluation started, and
\* one entry is queued
W_C8 ==
    /\ worklist = 1
    /\ ~mon.spaced
    /\ evaluations = 0
    /\ Running = {}

\* ---- C9 -------------------------------------------------------------------
\* C9 as stated: an edge delivered while button_work_handler is executing
\* queues nothing, so no separate later evaluation follows from it.
C9_Orig ==
    [][(EdgeDelivered /\ Running # {}) => worklist' = worklist]_vars

\* C9 as amended: an edge delivered while button_work_handler is executing
\* and the work item is not pending queues the item again, for one separate
\* evaluation that starts only after the running one has returned; the edge
\* is dropped only when the item is already pending.  A queued entry leaves
\* the queue only by being started.
Thm_C9 ==
    [][/\ (EdgeDelivered /\ Running # {})
            => /\ worklist' = 1
               /\ work_pending'
               /\ ~work_pending => worklist' = worklist + 1
               /\ work_pending => worklist' = worklist
               /\ Running' = Running
       /\ worklist' < worklist
            => /\ Running = {}
               /\ \E w \in Workers : pc[w] = "idle" /\ pc'[w] = "L28"]_vars

\* an edge delivered during an evaluation has queued a second one
W_C9 ==
    /\ Running # {}
    /\ worklist = 1
    /\ work_pending
    /\ evaluations >= 1

\* ---- C10 ------------------------------------------------------------------
\* C10: at most one execution of button_work_handler is in progress.
Thm_C10 == Cardinality(Running) <= 1

\* an item is queued while the handler is between its reads and writes of
\* last_interrupt_time and led_state
W_C10 ==
    \E w \in Workers :
       /\ pc[w] \in {"L31", "L37", "L39", "L40"}
       /\ worklist = 1
       /\ \E v \in Workers : pc[v] = "idle"

\* ---- C11 ------------------------------------------------------------------
\* the order of gpio_button_led_exit, read off the position of the exit thread
ExitOrder ==
    /\ mpc \in {"L155", "L158", "L159", "L160", "unloaded"} => ~irq_armed
    /\ mpc \in {"L158", "L159", "L160", "unloaded"}
         => Running = {} /\ worklist = 0 /\ ~wq_alive
    /\ mpc \in {"L159", "L160", "unloaded"} => led_out = 0
    /\ mpc \in {"loaded", "L155", "L158", "L159"} => led_requested
    /\ mpc \in {"loaded", "L155", "L158", "L159", "L160"} => button_requested
    /\ mpc = "unloaded" => ~led_requested /\ ~button_requested

\* C11: in a shutdown, the interrupt is freed first, destroy_workqueue
\* returns only when no evaluation is in flight, an evaluation in flight
\* ends by returning, the output line is 0 after exit's write whatever
\* led_state is, and the lines are released last.
Thm_C11 ==
    [][/\ ExitOrder'
       /\ \A w \in Workers :
            (pc[w] # "idle" /\ pc'[w] = "idle") => pc[w] \in Returned
       /\ (mpc = "L155" /\ mpc' # "L155") => Running = {} /\ worklist = 0
       /\ (mpc = "L158" /\ mpc' # "L158") => led_out' = 0]_vars

\* free_irq met a running evaluation, and exit has forced the line to 0
\* with led_state true
W_C11 ==
    /\ life.met_running
    /\ mpc = "L159"
    /\ led_state
    /\ led_out = 0
    /\ led_requested /\ button_requested

\* ---- C12 ------------------------------------------------------------------
\* C12: button_work_handler samples the input line only while BUTTON_GPIO
\* is held and writes the output line only while LED_GPIO is held.
Thm_C12 ==
    [][\A w \in Workers :
         /\ (pc[w] = "L37" /\ pc'[w] # "L37") => button_requested
         /\ (pc[w] = "L40" /\ pc'[w] # "L40") => led_requested]_vars

\* an evaluation wrote the line after shutdown had begun, the line still held
W_C12 ==
    /\ mpc = "L155"
    /\ led_requested
    /\ \E w \in Workers : pc[w] = "ret_toggled" /\ wrote[w]

\* ---- C13 ------------------------------------------------------------------
FailLabels == {"fail_workqueue", "fail_led_direction", "fail_button_direction"}

\* C13: a failed gpio_button_led_init returns a negative result with both
\* lines released and the workqueue destroyed, and the interrupt is not
\* armed on any failure path.
Thm_C13 ==
    /\ mpc \in FailLabels \cup {"init_failed"}
         => ~irq_armed /\ result < 0 /\ worklist = 0 /\ life.failed_at # ""
    /\ mpc = "init_failed"
         => ~button_requested /\ ~led_requested /\ ~wq_alive
    /\ life.failed_at # "" => mpc \in FailLabels \cup {"init_failed"}

\* init failed on the invalid LED line and released the button line
W_C13 ==
    /\ mpc = "init_failed"
    /\ life.failed_at = "L82"
    /\ result = -ENODEV
    /\ ~button_requested

\* ---- C14 ------------------------------------------------------------------
\* C14: request_irq is reached only with a valid interrupt number, and an
\* init that failed at gpio_to_irq or request_irq ends with the workqueue
\* destroyed and both lines released.
C14_Orig ==
    /\ mpc = "L121" => irq_number = IRQ_VALID
    /\ (mpc = "init_failed" /\ life.failed_at \in {"L113", "L121"})
         => ~wq_alive /\ ~led_requested /\ ~button_requested

\* ---- C16 ------------------------------------------------------------------
\* C16: a run of button_irq_handler leaves led_state, last_interrupt_time,
\* the output line, the clock and every evaluation in progress as they are,
\* sets the pending bit, queues the item exactly when it was not pending,
\* whatever the clock and the input level, and returns IRQ_HANDLED.
Thm_C16 ==
    [][EdgeDelivered
         => /\ Untouched
            /\ jiffies' = jiffies
            /\ pc' = pc
            /\ UNCHANGED locals
            /\ UNCHANGED lifecycle
            /\ work_pending'
            /\ worklist' = IF work_pending THEN worklist ELSE worklist + 1
            /\ irq_ret' = IRQ_HANDLED]_vars

\* the handler has run after an evaluation had toggled the LED
W_C16 ==
    /\ irq_ret = IRQ_HANDLED
    /\ work_pending
    /\ worklist = 1
    /\ led_state
    /\ last_interrupt_time # 0

\* ---- C17 ------------------------------------------------------------------
\* C17: when an evaluation flips led_state, the evaluation that flipped it
\* before read the clock at least DebounceWindow ticks before this one did.
Thm_C17 ==
    [][\A w \in Workers :
         (pc[w] = "L39" /\ pc'[w] = "L40") => fresh[w]]_vars

\* a second toggle has happened
W_C17 ==
    \E w \in Workers :
       /\ pc[w] = "ret_toggled"
       /\ fresh[w]
       /\ ~led_state
       /\ evaluations = 2

\* ---- C18 ------------------------------------------------------------------
AfterDestroy == {"L158", "L159", "L160", "unloaded"}
AfterFreeIrq == {"L155"} \cup AfterDestroy

\* C18: once exit is past destroy_workqueue nothing is queued, pending or
\* running and no evaluation starts; an edge after free_irq queues nothing;
\* destroy_workqueue returns only with the queue drained.
Thm_C18 ==
    [][/\ mpc' \in AfterDestroy
            => worklist' = 0 /\ ~work_pending' /\ Running' = {}
       /\ mpc \in AfterDestroy => pc' = pc
       /\ (mpc \in AfterFreeIrq /\ button = 1 /\ button' = 0)
            => worklist' = worklist /\ work_pending' = work_pending
       /\ (mpc = "L155" /\ mpc' = "L158")
            => worklist = 0 /\ Running = {}]_vars

\* work that was queued when free_irq ran has been evaluated, and the
\* workqueue is destroyed with the line not yet forced to 0
W_C18 ==
    /\ life.met_pending
    /\ mpc = "L158"
    /\ evaluations >= 1
    /\ led_out = 1

\* ---- C19 ------------------------------------------------------------------
\* C19: with the worker scheduled fairly, whenever the work item is pending
\* (every delivered edge leaves it pending) an evaluation starts later.
Thm_C19 == work_pending ~> (\E w \in Workers : pc[w] = "L28")

\* shutdown has begun while an edge's work is still queued
W_C19 ==
    /\ mpc = "L155"
    /\ work_pending
    /\ worklist = 1
    /\ ~mon.spaced

\* ---- C20 ------------------------------------------------------------------
\* the difference of two ticks modulo the width of the counter
ModDiff(b, a) == IF b >= a THEN b - a ELSE b + Modulus - a

\* C20: a debounce test made after the counter wrapped (the evaluation's
\* tick is below last_interrupt_time) rejects exactly when the difference
\* modulo the counter's width is below the window.
Thm_C20 ==
    [][\A w \in Workers :
         (Tests(w) /\ interrupt_time[w] < last_interrupt_time)
           => (Rejects(w) <=>
                 ModDiff(interrupt_time[w], last_interrupt_time)
                    < DebounceWindow)]_vars

\* an evaluation after the wrap passed the test: its tick is below the
\* last accepted one and the modular difference reached the window
W_C20 ==
    \E w \in Workers :
       /\ pc[w] = "L37"
       /\ elapsed[w] >= DebounceWindow
       /\ interrupt_time[w] + Modulus - elapsed[w] \in 1 .. ULONG_MAX
       /\ evaluations = 2

====
